---- MODULE Spec2Model ----
(***************************************************************************)
(* Passport registry: the HTTP handlers of server/routes.ts, the record    *)
(* store of server/storage.ts and the daily expiration job.                *)
(*                                                                         *)
(* Time is counted in half days, so that a timestamp carries a day and a   *)
(* time of day and setHours(0,0,0,0) is a real truncation.                 *)
(* Form fields of a multipart body are optional: a field is a set that is  *)
(* empty when the client did not send it and a singleton otherwise.        *)
(***************************************************************************)
EXTENDS Integers, Sequences, FiniteSets, TLC

\* ---------------------------------------------------------------- bounds
MaxPersonId == 2
MaxGroupId == 1
MaxLogs == 3
MaxFaults == 1
MaxRuns == 2

\* ------------------------------------------------------------- constants
\* setHours(0, 0, 0, 0) cuts a timestamp to the start of its day
HoursPerDay == 2
\* new Date(): the instant of the exploration, noon of day 1, so that
\* "yesterday" and "earlier today" exist
Now == HoursPerDay + 1
\* Number(undefined) and Number("") of a missing groupId
NaN == -1

\* req.user.claims.sub, which every handler reads: the identity the demo
\* middleware installs, and one that a login stores in users
AdminUser == "admin_user"
Identities == {AdminUser, "u1"}
DbUserIds == {"u1"}
Names == {"n1"}
ExpDates == {Now - 2, Now - 1}
GroupNames == {"g1"}
PhotoFile == "photo-1.png"
Forged == "forged"
ForgedName == "n2"

Opt(S) == {{}} \cup {{x} : x \in S}
Has(o) == o # {}
Val(o) == CHOOSE x \in o : TRUE

VARIABLES users, groups, nextGroupId, people, nextPersonId, logs, runs, faults,
          applied, res

vars == <<users, groups, nextGroupId, people, nextPersonId, logs, runs, faults,
          applied, res>>
store == <<users, groups, nextGroupId, people, nextPersonId, logs, applied>>

\* ---------------------------------------------------------------- helpers
IdStr(n) == ToString(n)

\* expirationDate.setHours(0,0,0,0) / today.setHours(0,0,0,0)
TruncDay(t) == t - (t % HoursPerDay)

\* a faulty test that forgets the status
IsExpiredWhateverStatus(person, today) ==
    TruncDay(person.expirationDate) < today

\* a faulty test that takes a passport running out today for expired
IsExpiredToday(person, today) ==
    person.status /\ TruncDay(person.expirationDate) <= today

\* routes.ts 104-108: the scan's test on a loaded record
IsExpired(person, today) ==
    person.status /\ TruncDay(person.expirationDate) < today

\* generateQRCode's result when the image was written
QrUrl(publicId) == "/uploads/qrcodes/qr-" \o publicId \o ".png"

\* `/uploads/photos/${req.file.filename}`
PhotoUrl(file) == "/uploads/photos/" \o file

\* generatePublicId: 16 random bytes, a token no other record carries; the
\* n-th call's token is written pub-n
generatePublicId(n) == "pub-" \o IdStr(n)

\* storage.getUser: the built-in admin, else the users row, else undefined
GetUser(id) ==
    IF id = AdminUser
    THEN {[id |-> AdminUser, isMainAdmin |-> TRUE, isActive |-> TRUE]}
    ELSE IF id \in DOMAIN users THEN {users[id]} ELSE {}

\* the fault a handler may meet at one of its calls: none, or one of points
\* while the fault budget lasts
FaultAt(points) ==
    {"none"} \cup (IF faults < MaxFaults /\ Len(logs) + faults < MaxLogs
                   THEN points ELSE {})
\* room for one more log entry
Room == Len(logs) + faults < MaxLogs
Spend(f) == faults' = IF f = "none" THEN faults ELSE faults + 1

Entry(action, entityType, entityId, performedBy) ==
    [action |-> action, entityType |-> entityType, entityId |-> entityId,
     performedBy |-> performedBy]

\* a faulty createActivityLog: the row put in front of the older ones
createActivityLogInFront(lg, e) == <<e>> \o lg

\* a faulty createActivityLog: nothing inserted
createActivityLogNothing(lg, e) == lg

\* a faulty createActivityLog: the row inserted twice
createActivityLogTwice(lg, e) == Append(Append(lg, e), e)

\* storage.createActivityLog: one row appended
createActivityLog(lg, e) == Append(lg, e)

\* logActivity: the write, with its failure caught and only printed
logActivity(lg, e, fails) == IF fails THEN lg ELSE createActivityLog(lg, e)

\* what the last request was answered: the route and the HTTP status
Answer(op, status) == [op |-> op, status |-> status]

TypeOK ==
    /\ DOMAIN users \subseteq DbUserIds
    /\ DOMAIN groups \subseteq 1..MaxGroupId
    /\ nextGroupId \in 1..(MaxGroupId + 1)
    /\ DOMAIN people \subseteq 1..MaxPersonId
    /\ nextPersonId \in 1..(MaxPersonId + 1)
    /\ Len(logs) <= MaxLogs
    /\ Len(runs) <= MaxRuns
    /\ faults \in 0..MaxFaults

\* a stored person
Person(id, publicId, fullName, expirationDate, groupId, status, photoUrl, qrCodeUrl, createdBy) ==
    [id |-> id, publicId |-> publicId, fullName |-> fullName,
     expirationDate |-> expirationDate, groupId |-> groupId,
     status |-> status, photoUrl |-> photoUrl, qrCodeUrl |-> qrCodeUrl,
     createdBy |-> createdBy, createdAt |-> Now]

\* The server starts on the database one recorded POST /api/people left: an
\* active passport with a photo that ran out yesterday. No group and no
\* users row exist yet.
Init ==
    /\ users = <<>>
    /\ groups = <<>>
    /\ nextGroupId = 1
    /\ people = (1 :> Person(1, generatePublicId(1), "n1", Now - 2, 1, TRUE,
                             PhotoUrl(PhotoFile), QrUrl(generatePublicId(1)),
                             AdminUser))
    /\ nextPersonId = 2
    /\ logs = << Entry("passport created", "passport", IdStr(1), AdminUser) >>
    /\ runs = <<>>
    /\ faults = 0
    /\ applied = 1
    /\ res = Answer("POST /api/people", 200)

\* ------------------------------------------------------------------ users
\* storage.upsertUser, called when an identity logs in: a new row gets the
\* default flags, an existing row keeps isMainAdmin and isActive
upsertUser(u) ==
    /\ u \in DbUserIds
    /\ users' = IF u \in DOMAIN users THEN users
                ELSE users @@ (u :> [id |-> u, isMainAdmin |-> FALSE,
                                     isActive |-> TRUE])
    /\ res' = Answer("login", 200)
    /\ UNCHANGED <<groups, nextGroupId, people, nextPersonId, logs, runs,
                   faults, applied>>

\* storage.updateAdminStatus: the rows changed; isActive undefined is left
\* out of the SET by the query builder
updateAdminStatus(id, isActive) ==
    IF id \in DOMAIN users /\ Has(isActive)
    THEN [users EXCEPT ![id].isActive = Val(isActive)]
    ELSE users

\* a faulty test that lets an identity without a user through
NotMainAdminOfStored(caller) ==
    \E u \in GetUser(caller) : ~u.isMainAdmin

\* the main-admin test of the admin routes: !currentUser?.isMainAdmin
NotMainAdmin(caller) ==
    \A u \in GetUser(caller) : ~u.isMainAdmin

\* PUT /api/admins/:id
PutAdmin(caller, id, isActive, f) ==
    /\ Spend(f)
    /\ UNCHANGED <<groups, nextGroupId, people, nextPersonId, runs, applied>>
    /\ IF NotMainAdmin(caller)
       THEN /\ f = "none"
            /\ res' = Answer("PUT /api/admins/:id", 403)
            /\ UNCHANGED <<users, logs>>
       ELSE IF f = "store"
       THEN /\ res' = Answer("PUT /api/admins/:id", 500)
            /\ UNCHANGED <<users, logs>>
       ELSE IF id \notin DOMAIN users
       THEN \* admin is undefined: admin.email throws before the log call
            /\ f = "none"
            /\ res' = Answer("PUT /api/admins/:id", 500)
            /\ UNCHANGED <<users, logs>>
       ELSE /\ Room
            /\ users' = updateAdminStatus(id, isActive)
            /\ logs' = logActivity(logs,
                          Entry(IF isActive = {TRUE} THEN "admin activated"
                                ELSE "admin deactivated", "admin", id, caller),
                          f = "log")
            /\ res' = Answer("PUT /api/admins/:id", 200)

\* GET /api/auth/user
GetAuthUser(caller) ==
    /\ res' = Answer("GET /api/auth/user",
                     IF GetUser(caller) = {} THEN 404
                     ELSE IF \E u \in GetUser(caller) : ~u.isActive THEN 403
                     ELSE 200)
    /\ UNCHANGED <<store, runs, faults>>

\* GET /api/admins
GetAdmins(caller) ==
    /\ res' = Answer("GET /api/admins",
                     IF NotMainAdmin(caller) THEN 403 ELSE 200)
    /\ UNCHANGED <<store, runs, faults>>

\* GET /api/groups, GET /api/people, GET /api/activity-logs
ListOps == {"GET /api/groups", "GET /api/people", "GET /api/activity-logs"}
GetList(op, caller) ==
    /\ op \in ListOps
    /\ res' = Answer(op, 200)
    /\ UNCHANGED <<store, runs, faults>>

\* ----------------------------------------------------------------- groups
\* insertGroupSchema.parse: the name is required
insertGroupSchemaOk(name) == Has(name)

\* storage.updateGroup: the row changed, or nothing when no row has the id
updateGroup(id, name) ==
    IF id \in DOMAIN groups /\ Has(name)
    THEN [groups EXCEPT ![id].name = Val(name)]
    ELSE groups

\* storage.deleteGroup
deleteGroup(id) == [g \in DOMAIN groups \ {id} |-> groups[g]]

\* POST /api/groups
PostGroup(caller, name, f) ==
    /\ Spend(f)
    /\ UNCHANGED <<users, people, nextPersonId, runs>>
    /\ IF ~insertGroupSchemaOk(name)
       THEN /\ f = "none"
            /\ res' = Answer("POST /api/groups", 400)
            /\ UNCHANGED <<groups, nextGroupId, logs, applied>>
       ELSE IF f = "store"
       THEN /\ res' = Answer("POST /api/groups", 400)
            /\ UNCHANGED <<groups, nextGroupId, logs, applied>>
       ELSE /\ nextGroupId <= MaxGroupId
            /\ Room
            /\ groups' = groups @@ (nextGroupId :>
                            [id |-> nextGroupId, name |-> Val(name),
                             createdBy |-> caller])
            /\ nextGroupId' = nextGroupId + 1
            /\ applied' = applied + 1
            /\ logs' = logActivity(logs,
                          Entry("group created", "group", IdStr(nextGroupId),
                                caller), f = "log")
            /\ res' = Answer("POST /api/groups", 200)

\* PUT /api/groups/:id
PutGroup(caller, id, name, f) ==
    /\ Spend(f)
    /\ UNCHANGED <<users, nextGroupId, people, nextPersonId, runs>>
    /\ IF f = "store"
       THEN /\ res' = Answer("PUT /api/groups/:id", 500)
            /\ UNCHANGED <<groups, logs, applied>>
       ELSE IF id \notin DOMAIN groups
       THEN \* group is undefined: group.name throws before the log call
            /\ f = "none"
            /\ res' = Answer("PUT /api/groups/:id", 500)
            /\ UNCHANGED <<groups, logs, applied>>
       ELSE /\ Room
            /\ groups' = updateGroup(id, name)
            /\ applied' = applied + 1
            /\ logs' = logActivity(logs,
                          Entry("group updated", "group", IdStr(id), caller),
                          f = "log")
            /\ res' = Answer("PUT /api/groups/:id", 200)

\* DELETE /api/groups/:id
DeleteGroup(caller, id, f) ==
    /\ Spend(f)
    /\ UNCHANGED <<users, nextGroupId, people, nextPersonId, runs>>
    /\ IF id \notin DOMAIN groups
       THEN /\ f = "none"
            /\ res' = Answer("DELETE /api/groups/:id", 404)
            /\ UNCHANGED <<groups, logs, applied>>
       ELSE IF f = "store"
       THEN /\ res' = Answer("DELETE /api/groups/:id", 500)
            /\ UNCHANGED <<groups, logs, applied>>
       ELSE /\ Room
            /\ groups' = deleteGroup(id)
            /\ applied' = applied + 1
            /\ logs' = logActivity(logs,
                          Entry("group deleted", "group", IdStr(id), caller),
                          f = "log")
            /\ res' = Answer("DELETE /api/groups/:id", 200)

\* ----------------------------------------------------------------- people
\* Number(req.body.groupId): the number a form field spells, NaN without one
Number(field) ==
    IF Has(field) /\ \E n \in 0..(MaxGroupId + 1) : IdStr(n) = Val(field)
    THEN CHOOSE n \in 0..(MaxGroupId + 1) : IdStr(n) = Val(field)
    ELSE NaN

\* the forms a client sends: every editable field in each combination of
\* expiry and status; the renewal of a passport with one or two fields left
\* out, with a photo, or under another name with forged values for the
\* columns the server owns
NoOwned == [id |-> {}, publicId |-> {}, qrCodeUrl |-> {}, createdBy |-> {},
            createdAt |-> {}]
ForgedOwned == [id |-> {MaxPersonId}, publicId |-> {Forged},
                qrCodeUrl |-> {QrUrl(Forged)}, createdBy |-> {Forged},
                createdAt |-> {0}]
Body(n, e, s, g, o) ==
    [fullName |-> n, expirationDate |-> e, status |-> s, groupId |-> g,
     id |-> o.id, publicId |-> o.publicId, qrCodeUrl |-> o.qrCodeUrl,
     createdBy |-> o.createdBy, createdAt |-> o.createdAt]
FullBodies ==
    { Body({n}, {e}, {s}, {IdStr(1)}, NoOwned) :
        n \in Names, e \in ExpDates, s \in {"true", "false"} }
Renewal == Body({"n1"}, {Now - 1}, {"true"}, {IdStr(1)}, NoOwned)
Bodies ==
    FullBodies
    \cup { [Renewal EXCEPT !.expirationDate = {}],
           [Renewal EXCEPT !.status = {}],
           [Renewal EXCEPT !.fullName = {}, !.expirationDate = {}],
           [Renewal EXCEPT !.groupId = {}, !.expirationDate = {}],
           Body({ForgedName}, Renewal.expirationDate, Renewal.status,
                Renewal.groupId, ForgedOwned) }
Form(body, file) == [body |-> body, file |-> file]
Forms ==
    { Form(b, {}) : b \in Bodies } \cup { Form(Renewal, {PhotoFile}) }

\* insertPersonSchema.parse on the user input of POST /api/people
insertPersonSchemaOk(body) ==
    /\ Has(body.fullName)
    /\ Has(body.expirationDate)
    /\ Number(body.groupId) # NaN

\* PUT /api/people/:id, lines 395-403: the body spread, groupId and status
\* coerced, the photo replaced when a file came
SpreadBody(body, file) ==
    [fullName |-> body.fullName,
     expirationDate |-> body.expirationDate,
     groupId |-> {Number(body.groupId)},
     status |-> {body.status = {"true"}},
     photoUrl |-> IF Has(file) THEN {PhotoUrl(Val(file))} ELSE {},
     id |-> body.id, publicId |-> body.publicId,
     qrCodeUrl |-> body.qrCodeUrl, createdBy |-> body.createdBy,
     createdAt |-> body.createdAt]

\* a faulty strip that forgets publicId
StripOwnedButPublicId(data) ==
    [data EXCEPT !.id = {}, !.qrCodeUrl = {}, !.createdBy = {},
                 !.createdAt = {}]

\* PUT /api/people/:id, lines 405-411: the server-owned keys deleted
StripOwned(data) ==
    [data EXCEPT !.id = {}, !.publicId = {}, !.qrCodeUrl = {},
                 !.createdBy = {}, !.createdAt = {}]

\* the integer column of groupId takes no NaN: the statement fails
ColumnRejects(data) == "groupId" \in DOMAIN data /\ data.groupId = {NaN}

\* storage.updatePerson: SET of the keys present, WHERE id; no row, no change
updatePerson(tbl, id, data) ==
    IF id \in DOMAIN tbl
    THEN [tbl EXCEPT ![id] =
            [c \in DOMAIN tbl[id] |->
                IF c \in DOMAIN data /\ Has(data[c]) THEN Val(data[c])
                ELSE tbl[id][c]]]
    ELSE tbl

\* a faulty markPersonExpired: SET status = NOT status, the WHERE lost
markPersonExpiredFlipsAll(tbl, id) ==
    [p \in DOMAIN tbl |-> [tbl[p] EXCEPT !.status = ~tbl[p].status]]

\* storage.markPersonExpired: SET status = false WHERE id
markPersonExpired(tbl, id) ==
    IF id \in DOMAIN tbl THEN [tbl EXCEPT ![id].status = FALSE] ELSE tbl

\* storage.deletePerson
deletePerson(tbl, id) == [p \in DOMAIN tbl \ {id} |-> tbl[p]]


\* POST /api/people
PostPerson(caller, body, file, f) ==
    /\ Spend(f)
    /\ UNCHANGED <<users, groups, nextGroupId, runs>>
    /\ IF ~insertPersonSchemaOk(body)
       THEN /\ f = "none"
            /\ res' = Answer("POST /api/people", 400)
            /\ UNCHANGED <<people, nextPersonId, logs, applied>>
       ELSE IF f = "create"
       THEN /\ res' = Answer("POST /api/people", 400)
            /\ UNCHANGED <<people, nextPersonId, logs, applied>>
       ELSE LET id == nextPersonId
                publicId == generatePublicId(id)
                person == Person(id, publicId, Val(body.fullName),
                                 Val(body.expirationDate),
                                 Number(body.groupId), body.status = {"true"},
                                 IF Has(file) THEN PhotoUrl(Val(file)) ELSE "",
                                 "", caller)
                created == people @@ (id :> person)
                \* generateQRCode returns "" when the rendering failed
                qrCodeUrl == IF f = "qr" THEN "" ELSE QrUrl(publicId)
                withQr == IF qrCodeUrl # "" /\ f # "update"
                          THEN updatePerson(created, id,
                                            [qrCodeUrl |-> {qrCodeUrl}])
                          ELSE created
            IN  /\ id <= MaxPersonId
                /\ Room
                /\ people' = withQr
                /\ nextPersonId' = id + 1
                /\ applied' = applied + 1
                /\ IF f = "update"
                   THEN /\ res' = Answer("POST /api/people", 400)
                        /\ UNCHANGED logs
                   ELSE /\ logs' = logActivity(logs,
                                     Entry("passport created", "passport",
                                           IdStr(id), caller), f = "log")
                        /\ res' = Answer("POST /api/people",
                                         IF f = "get" THEN 400 ELSE 200)

\* PUT /api/people/:id
PutPerson(caller, id, body, file, f) ==
    /\ Spend(f)
    /\ UNCHANGED <<users, groups, nextGroupId, nextPersonId, runs>>
    /\ LET updateData == StripOwned(SpreadBody(body, file))
       IN IF f = "store" \/ ColumnRejects(updateData)
          THEN /\ res' = Answer("PUT /api/people/:id", 400)
               /\ UNCHANGED <<people, logs, applied>>
          ELSE IF id \notin DOMAIN people
          THEN \* person is undefined: person.fullName throws, caught as 400
               /\ f = "none"
               /\ res' = Answer("PUT /api/people/:id", 400)
               /\ UNCHANGED <<people, logs, applied>>
          ELSE /\ Room
               /\ people' = updatePerson(people, id, updateData)
               /\ applied' = applied + 1
               /\ logs' = logActivity(logs,
                             Entry("passport updated", "passport", IdStr(id),
                                   caller), f = "log")
               /\ res' = Answer("PUT /api/people/:id", 200)

\* DELETE /api/people/:id
DeletePerson(caller, id, f) ==
    /\ Spend(f)
    /\ UNCHANGED <<users, groups, nextGroupId, nextPersonId, runs>>
    /\ IF id \notin DOMAIN people
       THEN /\ f = "none"
            /\ res' = Answer("DELETE /api/people/:id", 404)
            /\ UNCHANGED <<people, logs, applied>>
       ELSE IF f = "unlink"
       THEN \* fs.unlinkSync throws on a file that exists
            /\ people[id].photoUrl # "" \/ people[id].qrCodeUrl # ""
            /\ res' = Answer("DELETE /api/people/:id", 500)
            /\ UNCHANGED <<people, logs, applied>>
       ELSE IF f = "store"
       THEN /\ res' = Answer("DELETE /api/people/:id", 500)
            /\ UNCHANGED <<people, logs, applied>>
       ELSE /\ Room
            /\ people' = deletePerson(people, id)
            /\ applied' = applied + 1
            /\ logs' = logActivity(logs,
                          Entry("passport deleted", "passport", IdStr(id),
                                caller), f = "log")
            /\ res' = Answer("DELETE /api/people/:id", 200)

\* -------------------------------------------------------------- scheduler
\* storage.getAllPeople: every row, newest first (ids are handed out in
\* the order of creation)
RECURSIVE NewestFirst(_, _)
NewestFirst(tbl, ids) ==
    IF ids = {} THEN <<>>
    ELSE LET top == CHOOSE i \in ids : \A j \in ids : j <= i
         IN <<tbl[top]>> \o NewestFirst(tbl, ids \ {top})
getAllPeople(tbl) == NewestFirst(tbl, DOMAIN tbl)

\* the columns of a loaded record the loop reads
Loaded(snap) ==
    [k \in DOMAIN snap |->
        [id |-> snap[k].id, status |-> snap[k].status,
         expirationDate |-> snap[k].expirationDate]]

\* how a run of the cron callback stands: in its loop, through without a
\* failure, through with a failure that was swallowed, ended by its catch
Looping == "loop"
Clean == "done"
Degraded == "done, log failure swallowed"
Blind == "done, nothing loaded"
Aborted == "caught"
Ended == {Clean, Degraded, Blind, Aborted}

\* a run that starts right after a run ended, no request in between, is
\* the scheduler running again; Prev is how that earlier run ended
CronOps == {"cron", "cron again"}
Prev == IF res.op \in CronOps THEN res.status ELSE "none"
CronOp == IF Prev \in Ended THEN "cron again" ELSE "cron"

Idle == runs = <<>>

Without(seq, k) == [j \in 1..(Len(seq) - 1) |-> IF j < k THEN seq[j]
                                                 ELSE seq[j + 1]]

\* cron callback, lines 97-101: the people loaded and today computed.
\* A disabled endpoint makes getAllPeople answer []; another storage error
\* is thrown into the callback's catch.
CronTick(f) ==
    /\ Len(runs) < MaxRuns
    /\ Spend(f)
    /\ LET loaded == IF f = "none" THEN Loaded(getAllPeople(people))
                     ELSE <<>>
           run == [snap |-> loaded, today |-> TruncDay(Now), i |-> 1,
                   op |-> CronOp, prev |-> Prev, swallowed |-> FALSE]
       IN IF Len(loaded) = 0
          THEN /\ runs' = runs
               /\ res' = Answer(CronOp, IF f = "store" THEN Aborted
                                        ELSE IF f = "disabled" THEN Blind
                                        ELSE Clean)
          ELSE /\ runs' = Append(runs, run)
               /\ res' = Answer(CronOp, Looping)
    /\ UNCHANGED store

\* one turn of the loop of lines 103-120 in run k
ScanStep(k, f) ==
    /\ k \in DOMAIN runs
    /\ Spend(f)
    /\ UNCHANGED <<users, groups, nextGroupId, nextPersonId>>
    /\ LET r == runs[k]
           person == r.snap[r.i]
           last == r.i = Len(r.snap)
           swallowed == r.swallowed \/ f = "log"
           through == IF swallowed THEN Degraded ELSE Clean
       IN IF ~IsExpired(person, r.today)
          THEN /\ f = "none"
               /\ runs' = IF last THEN Without(runs, k)
                          ELSE [runs EXCEPT ![k].i = r.i + 1]
               /\ res' = Answer(r.op, IF last THEN through ELSE Looping)
               /\ UNCHANGED <<people, logs, applied>>
          ELSE IF f = "store"
          THEN \* markPersonExpired throws: the catch around the loop ends it
               /\ runs' = Without(runs, k)
               /\ res' = Answer(r.op, Aborted)
               /\ UNCHANGED <<people, logs, applied>>
          ELSE /\ Room
               /\ people' = markPersonExpired(people, person.id)
               /\ applied' = IF person.id \in DOMAIN people
                             THEN applied + 1 ELSE applied
               /\ logs' = logActivity(logs,
                             Entry("passport expired", "passport",
                                   IdStr(person.id), "system"), f = "log")
               /\ runs' = IF last THEN Without(runs, k)
                          ELSE [runs EXCEPT ![k].i = r.i + 1,
                                            ![k].swallowed = swallowed]
               /\ res' = Answer(r.op, IF last THEN through ELSE Looping)

\* -------------------------------------------------------------------- next
\* the routes behind the authentication middleware, called by one identity
RequestBy(caller) ==
    \/ GetAuthUser(caller)
    \/ GetAdmins(caller)
    \/ \E op \in ListOps : GetList(op, caller)
    \/ \E id \in Identities, a \in Opt(BOOLEAN),
          f \in FaultAt({"store", "log"}) : PutAdmin(caller, id, a, f)
    \/ \E name \in Opt(GroupNames), f \in FaultAt({"store", "log"}) :
          PostGroup(caller, name, f)
    \/ \E id \in 1..MaxGroupId, name \in Opt(GroupNames),
          f \in FaultAt({"store", "log"}) : PutGroup(caller, id, name, f)
    \/ \E id \in 1..MaxGroupId, f \in FaultAt({"store", "log"}) :
          DeleteGroup(caller, id, f)
    \/ \E form \in Forms,
          f \in FaultAt({"create", "qr", "update", "log", "get"}) :
          PostPerson(caller, form.body, form.file, f)
    \/ \E id \in 1..MaxPersonId, form \in Forms,
          f \in FaultAt({"store", "log"}) :
          PutPerson(caller, id, form.body, form.file, f)
    \/ \E id \in 1..MaxPersonId,
          f \in FaultAt({"unlink", "store", "log"}) :
          DeletePerson(caller, id, f)

\* a login, or a request of some identity
Requests ==
    \/ \E u \in DbUserIds : upsertUser(u)
    \/ \E caller \in Identities : RequestBy(caller)

Cron ==
    \E f \in FaultAt({"disabled", "store"}) : CronTick(f)

Scan == \E k \in DOMAIN runs, f \in FaultAt({"store", "log"}) : ScanStep(k, f)

\* one thing at a time: a run starts when no run is in its loop, and no
\* request is served while one is
Next ==
    \/ Idle /\ Requests
    \/ Idle /\ Cron
    \/ Scan

Spec == Init /\ [][Next]_vars

\* the scheduler against the requests that write persons: runs overlap each
\* other and the updates and deletions of the built-in admin
PersonWrites ==
    \/ \E id \in 1..MaxPersonId, form \in Forms,
          f \in FaultAt({"store", "log"}) :
          PutPerson(AdminUser, id, form.body, form.file, f)
    \/ \E id \in 1..MaxPersonId,
          f \in FaultAt({"unlink", "store", "log"}) :
          DeletePerson(AdminUser, id, f)

RaceNext == PersonWrites \/ Cron \/ Scan

SpecRace == Init /\ [][RaceNext]_vars

\* ------------------------------------------------------------------ claims
\* the last answer is this one
Answered(op, status) == res.op = op /\ res.status = status

\* the steps of the loop of run k, whatever they meet
ScanOf(k) == \E f \in {"none", "store", "log"} : ScanStep(k, f)

\* the entries the scheduler wrote about person id
SystemEntries(lg, id) ==
    { k \in DOMAIN lg : /\ lg[k].performedBy = "system"
                        /\ lg[k].entityType = "passport"
                        /\ lg[k].entityId = IdStr(id) }

\* the step takes the stored person id from inactive to active
Reactivates(id) ==
    /\ id \in DOMAIN people /\ id \in DOMAIN people'
    /\ ~people[id].status /\ people'[id].status

\* C1: a stored person's status goes from false to true only in a step of
\* the update route PUT /api/people/:id; a step of the scheduler leaves every
\* person as it was or takes one person's status from true to false.
C1_ReactivationOnlyByUpdate ==
    [][ /\ \A id \in 1..MaxPersonId :
              Reactivates(id) =>
                  \E caller \in Identities, form \in Forms,
                     f \in {"none", "store", "log"} :
                      PutPerson(caller, id, form.body, form.file, f)
        /\ \A k \in DOMAIN runs :
              ScanOf(k) =>
                  /\ DOMAIN people' = DOMAIN people
                  /\ \A id \in DOMAIN people :
                        \/ people'[id] = people[id]
                        \/ /\ people[id].status
                           /\ people'[id] = [people[id] EXCEPT !.status = FALSE]
      ]_vars

\* C1 witness: a person the scheduler once marked expired is active again
\* after an update.
C1_ReactivatedAfterExpiry ==
    /\ Answered("PUT /api/people/:id", 200)
    /\ \E id \in DOMAIN people :
          people[id].status /\ SystemEntries(logs, id) # {}

\* the log entries about groups and persons
EntityEntries == { k \in DOMAIN logs : logs[k].entityType \in {"group", "passport"} }

OwnedColumns == {"publicId", "qrCodeUrl", "createdBy", "createdAt"}

\* C3: a step that PUT /api/people/:id answers leaves the publicId,
\* qrCodeUrl, createdBy and createdAt of every stored person as they were,
\* forged payload or not.
C3_UpdateKeepsOwnedColumns ==
    [][ res'.op = "PUT /api/people/:id" =>
          /\ DOMAIN people' = DOMAIN people
          /\ \A id \in DOMAIN people, c \in OwnedColumns :
                people'[id][c] = people[id][c]
      ]_vars

\* C3 witness: the update that carried forged values was applied (the name
\* it alone carries is stored) and the person keeps the server's values.
C3_ForgedUpdateApplied ==
    /\ Answered("PUT /api/people/:id", 200)
    /\ \E id \in DOMAIN people :
          /\ people[id].fullName = ForgedName
          /\ people[id].publicId = generatePublicId(id)
          /\ people[id].qrCodeUrl = QrUrl(generatePublicId(id))
          /\ people[id].createdBy = AdminUser
          /\ people[id].createdAt = Now

\* active, and the expiration date strictly before the run's start of day
DueAt(row, today) == row.status /\ row.expirationDate < today

\* C4: when a run ends without a failure, every loaded person that was due
\* is inactive and has a "system" entry with its id; a turn of the loop on a
\* person that is not due changes no person and writes no entry, a turn on
\* a due person changes that person's status alone, and a person that was
\* not due has the status and the date it was loaded with.
C4_CleanRunExpiresTheDue ==
    [][ \A k \in DOMAIN runs :
          ScanOf(k) =>
              LET r == runs[k]
                  row == r.snap[r.i]
              IN  /\ ~DueAt(row, r.today) => people' = people /\ logs' = logs
                  /\ \A id \in DOMAIN people :
                        id # row.id => /\ id \in DOMAIN people'
                                       /\ people'[id] = people[id]
                  /\ (Len(runs') < Len(runs) /\ res'.status = Clean) =>
                        \A j \in DOMAIN r.snap :
                            LET p == r.snap[j]
                            IN  /\ p.id \in DOMAIN people'
                                /\ IF DueAt(p, r.today)
                                   THEN /\ ~people'[p.id].status
                                        /\ SystemEntries(logs', p.id) # {}
                                   ELSE /\ people'[p.id].status = p.status
                                        /\ people'[p.id].expirationDate
                                              = p.expirationDate
      ]_vars

\* C4 witness: a run ended without a failure, the passport that was due is
\* inactive with its entry, the other one is active without one.
C4_CleanRunDone ==
    /\ Answered("cron", Clean)
    /\ {1, 2} \subseteq DOMAIN people
    /\ ~people[1].status /\ SystemEntries(logs, 1) # {}
    /\ people[2].status /\ SystemEntries(logs, 2) = {}

C6_FailureSkipsOneRecord ==
    [][ \A k \in DOMAIN runs :
          (ScanOf(k) /\ Len(runs') < Len(runs)) =>
              runs[k].i = Len(runs[k].snap)
      ]_vars

\* the identity resolves to a user that is not active
Inactive(caller) == \E u \in GetUser(caller) : ~u.isActive

\* C7: a request of an identity whose user is inactive is refused: it
\* changes nothing that is stored.
C7_InactiveChangesNothing ==
    [][ \A caller \in DbUserIds :
          (Inactive(caller) /\ RequestBy(caller)) => UNCHANGED store
      ]_vars

\* C8: PUT /api/admins/:id called by an identity that has no user or whose
\* user is not the main admin is answered 403, changes no user and writes
\* no log entry.
C8_OnlyMainAdminSetsStatus ==
    [][ \A caller \in Identities :
          ( /\ res'.op = "PUT /api/admins/:id"
            /\ \A u \in GetUser(caller) : u.isMainAdmin = FALSE
            /\ \E id \in Identities, a \in Opt(BOOLEAN),
                  f \in {"none", "store", "log"} :
                  PutAdmin(caller, id, a, f) ) =>
              res'.status = 403 /\ users' = users /\ logs' = logs
      ]_vars

\* C8 witness: a stored user that is not the main admin called
\* PUT /api/admins/:id and was refused.
C8_RefusedAdminUpdate ==
    /\ Answered("PUT /api/admins/:id", 403)
    /\ \E u \in DOMAIN users : ~users[u].isMainAdmin

\* C9: PUT /api/people/:id with an id no person has is answered 404, changes
\* no person and writes no log entry.
C9_UnknownPersonIs404 ==
    [][ \A caller \in Identities, id \in (1..MaxPersonId) \ DOMAIN people :
          ( /\ res'.op = "PUT /api/people/:id"
            /\ PutPerson(caller, id, Renewal, {}, "none") ) =>
              res'.status = 404 /\ people' = people /\ logs' = logs
      ]_vars

\* C10: DELETE /api/people/:id removes the person although the removal of
\* its photo or QR file fails.
C10_DeleteSurvivesUnlinkFailure ==
    [][ \A caller \in Identities, id \in DOMAIN people :
          ( /\ res'.op = "DELETE /api/people/:id"
            /\ DeletePerson(caller, id, "unlink") ) =>
              id \notin DOMAIN people'
      ]_vars

\* C11: when the rendering of the QR code fails in POST /api/people on valid
\* input, the person is stored with the generated publicId, the status sent
\* and an empty qrCodeUrl, the creation is logged and the answer is 200.
C11_CreationSurvivesQrFailure ==
    [][ \A caller \in Identities, form \in Forms :
          ( /\ res'.op = "POST /api/people"
            /\ PostPerson(caller, form.body, form.file, "qr") ) =>
              LET id == nextPersonId
              IN  /\ DOMAIN people' = DOMAIN people \cup {id}
                  /\ people'[id].publicId = generatePublicId(id)
                  /\ people'[id].status = (form.body.status = {"true"})
                  /\ people'[id].qrCodeUrl = ""
                  /\ logs' = Append(logs, Entry("passport created", "passport",
                                                IdStr(id), caller))
                  /\ res'.status = 200
      ]_vars

\* C11 witness: a creation was answered 200 and logged while the person it
\* stored has no QR url.
C11_CreatedWithoutQr ==
    /\ Answered("POST /api/people", 200)
    /\ faults = 1
    /\ \E id \in DOMAIN people :
          /\ people[id].qrCodeUrl = ""
          /\ people[id].publicId = generatePublicId(id)
          /\ logs[Len(logs)] = Entry("passport created", "passport",
                                     IdStr(id), people[id].createdBy)

\* C12: the log only grows at its end: every entry of the log is the same
\* entry at the same place after any step.
C12_LogIsAppendOnly ==
    [][ /\ Len(logs') >= Len(logs)
        /\ \A k \in DOMAIN logs : logs'[k] = logs[k]
      ]_vars

\* C12 witness: the log is full, with entries of an admin and of the
\* scheduler after the entry the server started with.
C12_LogGrew ==
    /\ Len(logs) = MaxLogs
    /\ logs[1] = Entry("passport created", "passport", IdStr(1), AdminUser)
    /\ \E k \in DOMAIN logs : logs[k].performedBy = "system"
    /\ \E k \in DOMAIN logs : logs[k].action = "passport updated"

\* C13: at most one run of the scheduler is in its loop at any time.
C13_OneScanAtATime == Len(runs) <= 1

\* a turn of the loop of run k that wrote status = false to a stored person
MarksStored(k) == ScanOf(k) /\ applied' = applied + 1

\* C14 as stated: the scheduler takes a person from active to inactive only
\* when the stored record has, at that moment, an expiration date strictly
\* before the run's start of day.
C14_MarksOnlyWhatIsDueNow ==
    [][ \A k \in DOMAIN runs :
          (MarksStored(k) /\ people' # people) =>
              LET id == runs[k].snap[runs[k].i].id
              IN  DueAt(people[id], runs[k].today)
      ]_vars

\* C14 amended: the scheduler writes status = false to a person only when
\* the record as the run loaded it was active with an expiration date
\* strictly before the run's start of day, and the write changes nothing
\* but the status of that person.
C14_MarksOnlyWhatWasDueAtLoad ==
    [][ \A k \in DOMAIN runs :
          MarksStored(k) =>
              LET row == runs[k].snap[runs[k].i]
              IN  /\ DueAt(row, runs[k].today)
                  /\ people' = [people EXCEPT ![row.id].status = FALSE]
      ]_vars

\* C14 witness: a passport that was renewed until today after a run loaded
\* it was set inactive by that run: the update is logged, then the expiry.
C14_RenewedThenDemoted ==
    /\ Len(logs) >= 2
    /\ logs[Len(logs) - 1].action = "passport updated"
    /\ logs[Len(logs)].performedBy = "system"
    /\ logs[Len(logs)].entityId = logs[Len(logs) - 1].entityId
    /\ \E id \in DOMAIN people :
          /\ IdStr(id) = logs[Len(logs)].entityId
          /\ ~people[id].status
          /\ people[id].expirationDate >= TruncDay(Now)

\* C15: PUT /api/people/:id with a payload without the status field and
\* without a photo file leaves the status and the photoUrl of the person as
\* they were.
C15_OmittedFieldsAreKept ==
    [][ \A caller \in Identities, id \in DOMAIN people :
          ( /\ res'.op = "PUT /api/people/:id"
            /\ PutPerson(caller, id, [Renewal EXCEPT !.status = {}], {},
                         "none") ) =>
              /\ people'[id].status = people[id].status
              /\ people'[id].photoUrl = people[id].photoUrl
      ]_vars

====
